---- MODULE Spec2Model ----
(***************************************************************************)
(* Rent payment reconciliation engine of rent-backend: the Payment ledger, *)
(* the ingestion channels (pay-bill, generic webhook, M-Pesa confirmation, *)
(* Equity Bank webhook and manual entry, manual create/update), the STK    *)
(* push state machine, the monthly rent Generator and the overdue Sweeper. *)
(*                                                                         *)
(* Money is counted in units of 200 (rent 1200 = 6, a payment of 800 = 4). *)
(* Time is a day counter; a month has DaysPerMonth days and the clock      *)
(* starts on the first day of the month ClockStart.                        *)
(***************************************************************************)
EXTENDS Integers, Sequences, FiniteSets, TLC

VARIABLES
  payments,   \* the Payment collection, in insertion (createdAt) order
  houses,     \* House collection: houseNumber -> [rentAmount, tenant]
  tenants,    \* Tenant collection: id -> [house, status, bankAccountNumber]
  today,      \* the clock (new Date()), a day counter
  stkCount,   \* number of checkout sessions the provider has issued
  tasks       \* webhook notifications being processed after their acknowledgment

vars == <<payments, houses, tenants, today, stkCount, tasks>>
dirVars == <<houses, tenants>>

----------------------------------------------------------------------------
(* Bounds of the model *)

MaxPayments == 2      \* records the ledger may hold
MaxDay == 2           \* last day the clock reaches
DaysPerMonth == 2     \* length of a month on the model's clock
MaxStk == 1           \* checkout sessions the provider issues
MaxTasks == 2         \* webhook notifications processed at the same time

(* The world the model runs in *)

NULL == "null"
ClockStart == [month |-> 12, year |-> 2024]
HouseNumbers == {"101", "102"}
UnknownHouse == "999"
TenantIds == {"t1"}
Accounts == {"ACC1"}
UnknownAccount == "ACC9"
TxnIds == {"TX1"}
CheckoutIds == <<"ws_CO_1", "ws_CO_2", "ws_CO_3">>
MpesaReceipts == {"MPR1"}
Amounts == {4, 6}

Max(a, b) == IF a >= b THEN a ELSE b

----------------------------------------------------------------------------
(* Dates: new Date(), getMonth() + 1, getFullYear(), new Date(year, month - 1, 1) *)

MonthIndex(d) == (ClockStart.month - 1) + (d \div DaysPerMonth)
MonthOf(d) == (MonthIndex(d) % 12) + 1
YearOf(d) == ClockStart.year + (MonthIndex(d) \div 12)
DueDate(month, year) ==
  ((year - ClockStart.year) * 12 + (month - ClockStart.month)) * DaysPerMonth

Days == 0..MaxDay
Periods == {<<MonthOf(d), YearOf(d)>> : d \in Days}

(* prevMonth / prevYear / prevMonthStr: month 0 rolls to 12 of the year before *)
PrevMonth(month) == IF month - 1 = 0 THEN 12 ELSE month - 1
PrevYear(month, year) == IF month - 1 = 0 THEN year - 1 ELSE year

----------------------------------------------------------------------------
(* The Payment model *)

Merge(defaults, given) ==
  [f \in DOMAIN defaults |-> IF f \in DOMAIN given THEN given[f] ELSE defaults[f]]

(* Schema defaults of a Payment document *)
PaymentDefaults ==
  [tenant |-> NULL, house |-> NULL, month |-> 0, year |-> 0,
   amount |-> 0, expectedAmount |-> 0, paidAmount |-> 0, deficit |-> 0,
   carriedForward |-> 0, lateFee |-> 0, status |-> "pending",
   transactionId |-> NULL, receiptNumber |-> <<0, 0>>,
   paymentSource |-> "manual", isAutoGenerated |-> FALSE, notes |-> "none"]

(* new Payment({...}) *)
NewPayment(given) == Merge(PaymentDefaults, given)

SameKey(a, b) ==
  a.tenant = b.tenant /\ a.house = b.house /\ a.month = b.month /\ a.year = b.year

(* A store without the constraints *)
NoTransactionIdIndex(ps) == TRUE
NoPaidPeriodIndex(ps) == TRUE

(* The store's uniqueness constraints: the transaction identifier is unique *)
(* when present, and so is (tenant, house, month, year) among paid records. *)
UniqueTransactionId(ps) ==
  \A i, j \in DOMAIN ps :
    (i < j /\ ps[i].transactionId # NULL) => ps[i].transactionId # ps[j].transactionId

UniquePaidPeriod(ps) ==
  \A i, j \in DOMAIN ps :
    (i < j /\ ps[i].status = "paid" /\ ps[j].status = "paid") => ~SameKey(ps[i], ps[j])

(* Validation and constraints a write must pass, else save() throws *)
StoreAccepts(ps) ==
  /\ UniqueTransactionId(ps)
  /\ UniquePaidPeriod(ps)
  /\ \A i \in DOMAIN ps : ps[i].tenant # NULL /\ ps[i].house # NULL

(* Payment.findOne(filter): the first matching document in natural order, *)
(* 0 if none; matches is the set of positions the filter selects           *)
FindFirst(matches) ==
  IF matches = {} THEN 0 ELSE CHOOSE i \in matches : \A j \in matches : i <= j

(* Payment.findOne(filter).sort({createdAt: -1}): the newest match, 0 if none *)
FindLast(matches) ==
  IF matches = {} THEN 0 ELSE CHOOSE i \in matches : \A j \in matches : i >= j

(* Payment.findOne({transactionId}) *)
FindByTransactionId(ps, txn) ==
  FindFirst({i \in DOMAIN ps : ps[i].transactionId = txn})

(* Payment.findOne({house, tenant, month, year, status: 'paid'}) *)
FindPaid(ps, tenant, house, month, year) ==
  FindFirst({i \in DOMAIN ps :
               /\ ps[i].tenant = tenant /\ ps[i].house = house
               /\ ps[i].month = month /\ ps[i].year = year /\ ps[i].status = "paid"})

(* Payment.findOne({tenant, house, month, year}) *)
FindPeriod(ps, tenant, house, month, year) ==
  FindFirst({i \in DOMAIN ps :
               /\ ps[i].tenant = tenant /\ ps[i].house = house
               /\ ps[i].month = month /\ ps[i].year = year})

(* The carried-forward deficit: the newest record of the preceding period *)
CarriedForward(ps, tenant, house, month, year) ==
  LET prev == FindLast({i \in DOMAIN ps :
                          /\ ps[i].tenant = tenant /\ ps[i].house = house
                          /\ ps[i].month = PrevMonth(month)
                          /\ ps[i].year = PrevYear(month, year)})
  IN IF prev # 0 /\ ps[prev].deficit > 0 THEN ps[prev].deficit ELSE 0

(* `RCP-${year}-${String(count + 1).padStart(6, '0')}` *)
ReceiptNumber(ps, year) == <<year, Len(ps) + 1>>
NoReceipt == <<0, 0>>

----------------------------------------------------------------------------
(* Houses and tenants *)

(* A lookup that falls back to the first house when the number is unknown *)
FindHouseLoose(hs, houseNumber) ==
  IF houseNumber \in DOMAIN hs /\ hs[houseNumber].exists THEN houseNumber
  ELSE CHOOSE h \in DOMAIN hs : \A g \in DOMAIN hs : h = g \/ hs[h].tenant # NULL

(* House.findOne({houseNumber}) : the house number if such a house exists *)
FindHouse(hs, houseNumber) ==
  IF houseNumber \in DOMAIN hs /\ hs[houseNumber].exists THEN houseNumber ELSE NULL

(* Tenant.findOne({bankAccountNumber, status: 'active'}) *)
FindTenantByAccount(ts, accountNumber) ==
  IF \E t \in DOMAIN ts : ts[t].exists /\ ts[t].status = "active"
                          /\ ts[t].bankAccountNumber = accountNumber
  THEN CHOOSE t \in DOMAIN ts : ts[t].exists /\ ts[t].status = "active"
                                /\ ts[t].bankAccountNumber = accountNumber
  ELSE NULL

----------------------------------------------------------------------------
(* What a handler does: its HTTP response (status code, the receipt number *)
(* it names, the position of the payment it returns) and the collection it  *)
(* leaves behind                                                            *)

Result(code, receipt, idx, ps) ==
  [code |-> code, receipt |-> receipt, idx |-> idx, payments |-> ps]

(* await payment.save() of a new document, inside the handler's try block: *)
(* the success response, or the catch block's response when save() throws  *)
SaveNew(ps, rec, okCode, errCode) ==
  IF StoreAccepts(Append(ps, rec))
  THEN Result(okCode, rec.receiptNumber, Len(ps) + 1, Append(ps, rec))
  ELSE Result(errCode, NoReceipt, 0, ps)

(* let status = 'paid'; if (amount < house.rentAmount) status = 'partial' *)
StatusByRent(amount, rentAmount) ==
  IF amount < rentAmount THEN "partial" ELSE "paid"

(* let status = 'paid'; if (paidAmount < expectedAmount) status = 'partial' *)
StatusByExpected(paidAmount, expectedAmount) ==
  IF paidAmount < expectedAmount THEN "partial" ELSE "paid"

(* A ledger that calls an exact payment partial *)
LedgerStatusStrict(paidAmount, expectedAmount) ==
  IF paidAmount > expectedAmount THEN "paid"
  ELSE IF paidAmount > 0 THEN "partial"
  ELSE "pending"

(* Manual create/update: pending, partial or paid *)
LedgerStatus(paidAmount, expectedAmount) ==
  IF paidAmount >= expectedAmount THEN "paid"
  ELSE IF paidAmount > 0 THEN "partial"
  ELSE "pending"

(* Math.max(0, expectedAmount - paidAmount) *)
LedgerDeficit(paidAmount, expectedAmount) == Max(0, expectedAmount - paidAmount)

----------------------------------------------------------------------------
(* POST /payments/paybill *)

PaybillResult(ps, hs, now, accountNumber, amount, transactionId, referenceNumber) ==
  LET house == FindHouse(hs, accountNumber)
      month == MonthOf(now)
      year == YearOf(now)
  IN
  IF accountNumber = NULL \/ amount = 0 THEN Result(400, NoReceipt, 0, ps)
  ELSE IF house = NULL THEN Result(404, NoReceipt, 0, ps)
  ELSE IF hs[house].tenant = NULL THEN Result(400, NoReceipt, 0, ps)
  ELSE
    LET tenant == hs[house].tenant
        dup == IF transactionId # NULL THEN FindByTransactionId(ps, transactionId) ELSE 0
        paid == FindPaid(ps, tenant, house, month, year)
        rec == NewPayment(
          [tenant |-> tenant, house |-> house, amount |-> amount,
           status |-> StatusByRent(amount, hs[house].rentAmount),
           month |-> month, year |-> year,
           transactionId |-> IF transactionId # NULL THEN transactionId ELSE referenceNumber,
           paymentSource |-> "paybill",
           receiptNumber |-> ReceiptNumber(ps, year),
           notes |-> "ingested"])
    IN
    IF dup # 0 THEN Result(400, ps[dup].receiptNumber, 0, ps)
    ELSE IF paid # 0 THEN Result(400, ps[paid].receiptNumber, 0, ps)
    ELSE SaveNew(ps, rec, 201, 400)

Paybill(accountNumber, amount, transactionId, referenceNumber) ==
  LET r == PaybillResult(payments, houses, today, accountNumber, amount,
                         transactionId, referenceNumber)
  IN /\ Len(r.payments) <= MaxPayments
     /\ payments' = r.payments
     /\ UNCHANGED <<dirVars, today, stkCount, tasks>>

----------------------------------------------------------------------------
(* POST /payments/receive *)

ReceiveResult(ps, hs, now, houseNumber, amount, transactionId) ==
  LET house == FindHouse(hs, houseNumber)
      month == MonthOf(now)
      year == YearOf(now)
  IN
  IF houseNumber = NULL \/ amount = 0 THEN Result(400, NoReceipt, 0, ps)
  ELSE IF house = NULL THEN Result(404, NoReceipt, 0, ps)
  ELSE IF hs[house].tenant = NULL THEN Result(400, NoReceipt, 0, ps)
  ELSE
    LET tenant == hs[house].tenant
        dup == IF transactionId # NULL THEN FindByTransactionId(ps, transactionId) ELSE 0
        paid == FindPaid(ps, tenant, house, month, year)
        rec == NewPayment(
          [tenant |-> tenant, house |-> house, amount |-> amount,
           status |-> StatusByRent(amount, hs[house].rentAmount),
           month |-> month, year |-> year,
           transactionId |-> transactionId,
           paymentSource |-> "webhook",
           receiptNumber |-> ReceiptNumber(ps, year),
           notes |-> "ingested"])
    IN
    IF dup # 0 THEN Result(400, NoReceipt, 0, ps)
    ELSE IF paid # 0 THEN Result(400, NoReceipt, 0, ps)
    ELSE SaveNew(ps, rec, 201, 400)

Receive(houseNumber, amount, transactionId) ==
  LET r == ReceiveResult(payments, houses, today, houseNumber, amount, transactionId)
  IN /\ Len(r.payments) <= MaxPayments
     /\ payments' = r.payments
     /\ UNCHANGED <<dirVars, today, stkCount, tasks>>

----------------------------------------------------------------------------
(* Notifications processed after the acknowledgment: the reads of the      *)
(* handler give either a final outcome or the document it is about to save *)

Looked(outcome, rec) == [outcome |-> outcome, rec |-> rec]

(* await payment.save() at the end of the processing *)
SaveOutcome(ps, rec) == IF StoreAccepts(Append(ps, rec)) THEN "recorded" ELSE "error"

AfterSave(ps, rec) == IF StoreAccepts(Append(ps, rec)) THEN Append(ps, rec) ELSE ps

(* POST /payments/mpesa-confirmation, the processing after res.json(...) *)
MpesaLookup(ps, hs, BillRefNumber, TransAmount, TransID, TransTime) ==
  LET house == FindHouse(hs, BillRefNumber)
      month == MonthOf(TransTime)
      year == YearOf(TransTime)
  IN
  IF BillRefNumber = NULL \/ TransAmount = 0 \/ TransID = NULL
    THEN Looked("invalid", PaymentDefaults)
  ELSE IF house = NULL THEN Looked("not_found", PaymentDefaults)
  ELSE IF hs[house].tenant = NULL THEN Looked("no_tenant", PaymentDefaults)
  ELSE IF FindByTransactionId(ps, TransID) # 0 THEN Looked("duplicate", PaymentDefaults)
  ELSE IF FindPaid(ps, hs[house].tenant, house, month, year) # 0
    THEN Looked("already_paid", PaymentDefaults)
  ELSE Looked("save", NewPayment(
          [tenant |-> hs[house].tenant, house |-> house, amount |-> TransAmount,
           status |-> StatusByRent(TransAmount, hs[house].rentAmount),
           month |-> month, year |-> year,
           transactionId |-> TransID,
           paymentSource |-> "paybill",
           receiptNumber |-> ReceiptNumber(ps, year),
           notes |-> "ingested"]))

(* processEquityBankPayment(webhookData) *)
BankLookup(ps, hs, ts, accountNumber, amount, transactionId, referenceNumber, transactionDate) ==
  LET tenant == FindTenantByAccount(ts, accountNumber)
      month == MonthOf(transactionDate)
      year == YearOf(transactionDate)
  IN
  IF accountNumber = NULL \/ amount = 0 \/ amount <= 0
    THEN Looked("invalid", PaymentDefaults)
  ELSE IF tenant = NULL THEN Looked("not_found", PaymentDefaults)
  ELSE IF FindHouse(hs, ts[tenant].house) = NULL THEN Looked("no_house", PaymentDefaults)
  ELSE
    LET house == ts[tenant].house
        existing == FindPaid(ps, tenant, house, month, year)
        carriedForward == CarriedForward(ps, tenant, house, month, year)
        expectedAmount == hs[house].rentAmount + carriedForward
    IN
    IF transactionId # NULL /\ FindByTransactionId(ps, transactionId) # 0
      THEN Looked("duplicate", PaymentDefaults)
    ELSE IF existing # 0 /\ ps[existing].amount = amount
      THEN Looked("already_paid", PaymentDefaults)
    ELSE Looked("save", NewPayment(
          [tenant |-> tenant, house |-> house, amount |-> amount,
           expectedAmount |-> expectedAmount, paidAmount |-> amount,
           deficit |-> LedgerDeficit(amount, expectedAmount),
           carriedForward |-> carriedForward,
           status |-> StatusByExpected(amount, expectedAmount),
           month |-> month, year |-> year,
           transactionId |-> IF transactionId # NULL THEN transactionId ELSE referenceNumber,
           paymentSource |-> "equity_bank",
           receiptNumber |-> ReceiptNumber(ps, year),
           notes |-> "ingested"]))

(* The acknowledgment both webhooks send before they process *)
Ack(ps) == Result(200, NoReceipt, 0, ps)

(* The whole handler, with no other request in between *)
MpesaConfirmation(BillRefNumber, TransAmount, TransID, TransTime) ==
  LET l == MpesaLookup(payments, houses, BillRefNumber, TransAmount, TransID, TransTime)
      after == IF l.outcome = "save" THEN AfterSave(payments, l.rec) ELSE payments
  IN /\ Len(after) <= MaxPayments
     /\ payments' = after
     /\ UNCHANGED <<dirVars, today, stkCount, tasks>>

BankWebhook(accountNumber, amount, transactionId, referenceNumber, transactionDate) ==
  LET l == BankLookup(payments, houses, tenants, accountNumber, amount, transactionId,
                      referenceNumber, transactionDate)
      after == IF l.outcome = "save" THEN AfterSave(payments, l.rec) ELSE payments
  IN /\ Len(after) <= MaxPayments
     /\ payments' = after
     /\ UNCHANGED <<dirVars, today, stkCount, tasks>>

----------------------------------------------------------------------------
(* POST /payments/mpesa-validation: the ResultCode it answers.  fails is   *)
(* whether House.findOne throws.                                           *)

(* A validation that rejects when it cannot look the house up *)
MpesaValidationStrict(hs, accountNumber, fails) ==
  IF fails \/ accountNumber = NULL THEN 1
  ELSE IF FindHouse(hs, accountNumber) # NULL /\ hs[accountNumber].tenant # NULL THEN 0
  ELSE 1

MpesaValidationResult(hs, accountNumber, fails) ==
  IF accountNumber = NULL THEN 0
  ELSE IF fails THEN 0
  ELSE IF FindHouse(hs, accountNumber) # NULL /\ hs[accountNumber].tenant # NULL THEN 0
  ELSE 1

MpesaValidation(accountNumber, fails) ==
  /\ MpesaValidationResult(houses, accountNumber, fails) \in {0, 1}
  /\ UNCHANGED vars

----------------------------------------------------------------------------
(* POST /equity-bank/manual-payment *)

BankManualResult(ps, hs, ts, accountNumber, amount, transactionId, transactionDate) ==
  LET tenant == FindTenantByAccount(ts, accountNumber)
      month == MonthOf(transactionDate)
      year == YearOf(transactionDate)
  IN
  IF accountNumber = NULL \/ amount = 0 THEN Result(400, NoReceipt, 0, ps)
  ELSE IF tenant = NULL THEN Result(404, NoReceipt, 0, ps)
  ELSE IF ts[tenant].house = NULL THEN Result(400, NoReceipt, 0, ps)
  ELSE
    LET house == ts[tenant].house
        dup == IF transactionId # NULL THEN FindByTransactionId(ps, transactionId) ELSE 0
        carriedForward == CarriedForward(ps, tenant, house, month, year)
        expectedAmount == hs[house].rentAmount + carriedForward
        rec == NewPayment(
          [tenant |-> tenant, house |-> house, amount |-> amount,
           expectedAmount |-> expectedAmount, paidAmount |-> amount,
           deficit |-> LedgerDeficit(amount, expectedAmount),
           carriedForward |-> carriedForward,
           status |-> StatusByExpected(amount, expectedAmount),
           month |-> month, year |-> year,
           transactionId |-> transactionId,
           paymentSource |-> "equity_bank",
           receiptNumber |-> ReceiptNumber(ps, year),
           notes |-> "ingested"])
    IN
    IF dup # 0 THEN Result(400, ps[dup].receiptNumber, 0, ps)
    ELSE IF FindHouse(hs, house) = NULL THEN Result(404, NoReceipt, 0, ps)
    ELSE SaveNew(ps, rec, 201, 400)

BankManual(accountNumber, amount, transactionId, transactionDate) ==
  LET r == BankManualResult(payments, houses, tenants, accountNumber, amount,
                            transactionId, transactionDate)
  IN /\ Len(r.payments) <= MaxPayments
     /\ payments' = r.payments
     /\ UNCHANGED <<dirVars, today, stkCount, tasks>>

----------------------------------------------------------------------------
(* POST /payments : manual create *)

ManualCreateResult(ps, hs, now, houseNumber, amount, date) ==
  LET house == FindHouse(hs, houseNumber)
      month == MonthOf(date)
      year == YearOf(date)
  IN
  IF houseNumber # NULL /\ house = NULL THEN Result(404, NoReceipt, 0, ps)
  ELSE IF house = NULL THEN Result(400, NoReceipt, 0, ps)
  ELSE
    LET tenant == hs[house].tenant
        carriedForward ==
          IF tenant # NULL THEN CarriedForward(ps, tenant, house, month, year) ELSE 0
        expectedAmount == hs[house].rentAmount + carriedForward
        paidAmount == amount
        rec == NewPayment(
          [tenant |-> tenant, house |-> house, amount |-> amount,
           month |-> month, year |-> year,
           receiptNumber |-> ReceiptNumber(ps, YearOf(now)),
           expectedAmount |-> expectedAmount, paidAmount |-> paidAmount,
           deficit |-> LedgerDeficit(paidAmount, expectedAmount),
           carriedForward |-> carriedForward,
           status |-> LedgerStatus(paidAmount, expectedAmount),
           notes |-> "manual"])
    IN SaveNew(ps, rec, 201, 400)

ManualCreate(houseNumber, amount, date) ==
  LET r == ManualCreateResult(payments, houses, today, houseNumber, amount, date)
  IN /\ Len(r.payments) <= MaxPayments
     /\ payments' = r.payments
     /\ UNCHANGED <<dirVars, today, stkCount, tasks>>

(* PUT /payments/:id with a body {amount} *)

(* payment.expectedAmount || payment.house.rentAmount + (payment.carriedForward || 0) *)
UpdateExpected(p, hs) ==
  IF p.expectedAmount # 0 THEN p.expectedAmount
  ELSE hs[p.house].rentAmount + p.carriedForward

ManualUpdateResult(ps, hs, id, amount) ==
  IF id \notin DOMAIN ps THEN Result(404, NoReceipt, 0, ps)
  ELSE IF FindHouse(hs, ps[id].house) = NULL THEN Result(400, NoReceipt, 0, ps)
  ELSE
    LET expectedAmount == UpdateExpected(ps[id], hs)
        updated == [ps[id] EXCEPT
                      !.amount = amount,
                      !.paidAmount = amount,
                      !.deficit = LedgerDeficit(amount, expectedAmount),
                      !.status = LedgerStatus(amount, expectedAmount)]
        after == [ps EXCEPT ![id] = updated]
    IN IF StoreAccepts(after)
       THEN Result(200, updated.receiptNumber, id, after)
       ELSE Result(400, NoReceipt, 0, ps)

ManualUpdate(id, amount) ==
  LET r == ManualUpdateResult(payments, houses, id, amount)
  IN /\ payments' = r.payments
     /\ UNCHANGED <<dirVars, today, stkCount, tasks>>

----------------------------------------------------------------------------
(* DELETE /payments/:id *)

RemoveAt(ps, id) == SubSeq(ps, 1, id - 1) \o SubSeq(ps, id + 1, Len(ps))

DeleteResult(ps, id) ==
  IF id \notin DOMAIN ps THEN Result(404, NoReceipt, 0, ps)
  ELSE Result(200, NoReceipt, 0, RemoveAt(ps, id))

DeletePayment(id) ==
  LET r == DeleteResult(payments, id)
  IN /\ payments' = r.payments
     /\ UNCHANGED <<dirVars, today, stkCount, tasks>>

----------------------------------------------------------------------------
(* POST /payments/generate-monthly-rent *)

(* today > dueDate + gracePeriodDays *)
PastGrace(now, month, year, gracePeriodDays) ==
  now > DueDate(month, year) + gracePeriodDays

(* (amount * lateFeePercentage) / 100 *)
LateFee(amount, lateFeePercentage) == (amount * lateFeePercentage) \div 100

(* A generator that bills the bare rent and ignores the grace period *)
GeneratedPaymentFlat(ps, hs, now, tenant, house, month, year, lateFeePercentage, gracePeriodDays) ==
  NewPayment(
    [tenant |-> tenant, house |-> house, amount |-> hs[house].rentAmount,
     expectedAmount |-> hs[house].rentAmount, paidAmount |-> 0,
     deficit |-> hs[house].rentAmount, carriedForward |-> 0,
     month |-> month, year |-> year,
     status |-> IF now > DueDate(month, year) THEN "overdue" ELSE "pending",
     lateFee |-> 0, isAutoGenerated |-> TRUE])

GeneratedPayment(ps, hs, now, tenant, house, month, year, lateFeePercentage, gracePeriodDays) ==
  LET carriedForward == CarriedForward(ps, tenant, house, month, year)
      expectedAmount == hs[house].rentAmount + carriedForward
      late == PastGrace(now, month, year, gracePeriodDays)
  IN NewPayment(
       [tenant |-> tenant, house |-> house, amount |-> expectedAmount,
        expectedAmount |-> expectedAmount, paidAmount |-> 0,
        deficit |-> expectedAmount, carriedForward |-> carriedForward,
        month |-> month, year |-> year,
        status |-> IF late THEN "overdue" ELSE "pending",
        lateFee |-> IF late THEN LateFee(expectedAmount, lateFeePercentage) ELSE 0,
        isAutoGenerated |-> TRUE])

(* Tenant.find({status: 'active', house: {$ne: null}}).populate('house') *)
TenantOrder == <<"t1">>

BillableTenants(ts, hs) ==
  SelectSeq(TenantOrder,
            LAMBDA t : /\ ts[t].exists /\ ts[t].status = "active"
                       /\ ts[t].house # NULL /\ FindHouse(hs, ts[t].house) # NULL)

RECURSIVE GenerateFor(_, _, _, _, _, _, _, _, _)
GenerateFor(ps, hs, ts, now, list, month, year, lateFeePercentage, gracePeriodDays) ==
  IF list = <<>> THEN ps
  ELSE
    LET tenant == Head(list)
        house == ts[tenant].house
        next ==
          IF FindPeriod(ps, tenant, house, month, year) # 0 THEN ps
          ELSE Append(ps, GeneratedPayment(ps, hs, now, tenant, house, month, year,
                                           lateFeePercentage, gracePeriodDays))
    IN GenerateFor(next, hs, ts, now, Tail(list), month, year, lateFeePercentage,
                   gracePeriodDays)

GenerateMonthlyRent(date, lateFeePercentage, gracePeriodDays) ==
  LET after == GenerateFor(payments, houses, tenants, today,
                           BillableTenants(tenants, houses), MonthOf(date), YearOf(date),
                           lateFeePercentage, gracePeriodDays)
  IN /\ Len(after) <= MaxPayments
     /\ payments' = after
     /\ UNCHANGED <<dirVars, today, stkCount, tasks>>

----------------------------------------------------------------------------
(* POST /payments/check-overdue *)

(* A sweep that computes the late fee anew each time *)
SweptRecompute(p, hs, now, lateFeePercentage, gracePeriodDays) ==
  IF /\ p.status \in {"pending", "partial"}
     /\ PastGrace(now, p.month, p.year, gracePeriodDays)
  THEN [p EXCEPT
          !.lateFee = IF FindHouse(hs, p.house) # NULL
                      THEN LateFee(hs[p.house].rentAmount, lateFeePercentage)
                      ELSE p.lateFee,
          !.status = "overdue"]
  ELSE p

(* A sweep that already acts on the last day of the grace period, and on  *)
(* paid payments too                                                       *)
SweptEager(p, hs, now, lateFeePercentage, gracePeriodDays) ==
  IF /\ p.status \in {"pending", "partial", "paid"}
     /\ now >= DueDate(p.month, p.year) + gracePeriodDays
  THEN [p EXCEPT
          !.lateFee = IF p.lateFee = 0 /\ FindHouse(hs, p.house) # NULL
                      THEN LateFee(hs[p.house].rentAmount, lateFeePercentage)
                      ELSE p.lateFee,
          !.status = "overdue"]
  ELSE p

Swept(p, hs, now, lateFeePercentage, gracePeriodDays) ==
  IF /\ p.status \in {"pending", "partial"}
     /\ PastGrace(now, p.month, p.year, gracePeriodDays)
  THEN [p EXCEPT
          !.lateFee = IF p.lateFee = 0 /\ FindHouse(hs, p.house) # NULL
                      THEN LateFee(hs[p.house].rentAmount, lateFeePercentage)
                      ELSE p.lateFee,
          !.status = "overdue"]
  ELSE p

CheckOverdue(lateFeePercentage, gracePeriodDays) ==
  LET after == [i \in DOMAIN payments |->
                  Swept(payments[i], houses, today, lateFeePercentage, gracePeriodDays)]
  IN /\ payments' = after
     /\ UNCHANGED <<dirVars, today, stkCount, tasks>>

----------------------------------------------------------------------------
(* POST /mpesa/stk-push: providerOk is whether mpesaService.initiateSTKPush returns *)

StkPushResult(ps, hs, now, issued, phoneNumber, amount, houseNumber, date, providerOk) ==
  LET house == FindHouse(hs, houseNumber)
      month == MonthOf(date)
      year == YearOf(date)
  IN
  IF phoneNumber = NULL \/ amount = 0 \/ houseNumber = NULL
    THEN Result(400, NoReceipt, 0, ps)
  ELSE IF house = NULL THEN Result(404, NoReceipt, 0, ps)
  ELSE IF hs[house].tenant = NULL THEN Result(400, NoReceipt, 0, ps)
  ELSE
    LET pendingPayment == NewPayment(
          [tenant |-> hs[house].tenant, house |-> house, amount |-> amount,
           status |-> "pending", month |-> month, year |-> year,
           paymentSource |-> "mpesa_stk",
           receiptNumber |-> ReceiptNumber(ps, year),
           notes |-> "stk-initiated"])
        saved == Append(ps, pendingPayment)
        withId == Append(ps, [pendingPayment EXCEPT
                                !.transactionId = CheckoutIds[issued + 1]])
    IN
    IF ~StoreAccepts(saved) THEN Result(500, NoReceipt, 0, ps)
    ELSE IF ~providerOk THEN Result(500, NoReceipt, 0, saved)
    ELSE IF ~StoreAccepts(withId) THEN Result(500, NoReceipt, 0, saved)
    ELSE Result(200, pendingPayment.receiptNumber, Len(withId), withId)

StkPush(phoneNumber, amount, houseNumber, date, providerOk) ==
  LET r == StkPushResult(payments, houses, today, stkCount, phoneNumber, amount,
                         houseNumber, date, providerOk)
  IN /\ Len(r.payments) <= MaxPayments
     /\ stkCount < MaxStk
     /\ payments' = r.payments
     /\ stkCount' = IF r.code = 200 THEN stkCount + 1 ELSE stkCount
     /\ UNCHANGED <<dirVars, today, tasks>>

(* POST /mpesa/callback.  metadata is "absent" (no CallbackMetadata), "bare" *)
(* (metadata without MpesaReceiptNumber) or the receipt number it carries.  *)
CallbackResult(ps, CheckoutRequestID, ResultCode, metadata) ==
  LET id == FindByTransactionId(ps, CheckoutRequestID) IN
  IF id = 0 THEN Result(404, NoReceipt, 0, ps)
  ELSE IF ResultCode = 0 /\ metadata # "absent" THEN
    LET completed == [ps[id] EXCEPT
                        !.status = "paid",
                        !.transactionId =
                          IF metadata # "bare" THEN metadata ELSE CheckoutRequestID,
                        !.notes = "stk-completed"]
        after == [ps EXCEPT ![id] = completed]
    IN IF StoreAccepts(after) THEN Result(200, NoReceipt, id, after)
       ELSE Result(500, NoReceipt, 0, ps)
  ELSE
    LET failed == [ps[id] EXCEPT !.status = "pending", !.notes = "stk-failed"]
        after == [ps EXCEPT ![id] = failed]
    IN IF StoreAccepts(after) THEN Result(200, NoReceipt, id, after)
       ELSE Result(500, NoReceipt, 0, ps)

Callback(CheckoutRequestID, ResultCode, metadata) ==
  LET r == CallbackResult(payments, CheckoutRequestID, ResultCode, metadata)
  IN /\ payments' = r.payments
     /\ UNCHANGED <<dirVars, today, stkCount, tasks>>

(* GET /mpesa/status/:checkoutRequestID.  providerOk is whether             *)
(* mpesaService.querySTKPushStatus returns; either way the answer carries   *)
(* the payment found by Payment.findOne({transactionId: checkoutRequestID}) *)
QueryStatusResult(ps, checkoutRequestID, providerOk) ==
  LET id == FindByTransactionId(ps, checkoutRequestID) IN
  IF id = 0 THEN Result(404, NoReceipt, 0, ps)
  ELSE Result(200, ps[id].receiptNumber, id, ps)

QueryStatus(checkoutRequestID, providerOk) ==
  /\ payments' = QueryStatusResult(payments, checkoutRequestID, providerOk).payments
  /\ UNCHANGED <<dirVars, today, stkCount, tasks>>

----------------------------------------------------------------------------
(* The clock *)

Tick ==
  /\ today < MaxDay
  /\ today' = today + 1
  /\ UNCHANGED <<payments, dirVars, stkCount, tasks>>

----------------------------------------------------------------------------
(* Inputs of the requests.  A request that fails validation or resolution *)
(* returns before it reads its other fields, so those are not varied.     *)
AmountsIn == Amounts \cup {0}
TxnIn == TxnIds \cup {NULL}

(* transactionId and referenceNumber: the second is read only without the first *)
TxnPairs == {<<t, NULL>> : t \in TxnIds} \cup {<<NULL, r>> : r \in TxnIn}

(* The date a request carries: the day it is made *)
TxnDates(now) == {now}

HouseInputs ==
  {<<h, m>> : h \in HouseNumbers, m \in Amounts}
    \cup {<<UnknownHouse, 6>>, <<NULL, 6>>}
    \cup {<<h, 0>> : h \in HouseNumbers}

AccountInputs ==
  {<<a, m>> : a \in Accounts, m \in Amounts}
    \cup {<<UnknownAccount, 6>>, <<NULL, 6>>}
    \cup {<<a, 0>> : a \in Accounts}

LateFeePercentages == {50}
GraceDays == {0, 1}
ResultCodes == {0, 1032}
Metadata == {"absent", "bare"} \cup MpesaReceipts
(* Identifiers the provider puts in a callback: the sessions it issued and *)
(* the receipts it gave out                                                *)
ProviderIds == MpesaReceipts \cup {CheckoutIds[n] : n \in 1..MaxStk}

IdleTask == [pc |-> "idle"]

Init ==
  /\ payments = <<>>
  /\ houses = [h \in HouseNumbers |->
                 [rentAmount |-> 6, exists |-> TRUE,
                  tenant |-> IF h = "101" THEN "t1" ELSE NULL]]
  /\ tenants = [t \in TenantIds |->
                 [house |-> "101", status |-> "active", exists |-> TRUE,
                  bankAccountNumber |-> "ACC1"]]
  /\ today = 0
  /\ stkCount = 0
  /\ tasks = [s \in 1..MaxTasks |-> IdleTask]

IngestStep ==
  \/ \E hm \in HouseInputs, tr \in TxnPairs : Paybill(hm[1], hm[2], tr[1], tr[2])
  \/ \E hm \in HouseInputs, t \in TxnIn : Receive(hm[1], hm[2], t)
  \/ \E hm \in HouseInputs, t \in TxnIn, d \in TxnDates(today) :
       MpesaConfirmation(hm[1], hm[2], t, d)
  \/ \E am \in AccountInputs, tr \in TxnPairs, d \in TxnDates(today) :
       BankWebhook(am[1], am[2], tr[1], tr[2], d)
  \/ \E am \in AccountInputs, t \in TxnIn, d \in TxnDates(today) :
       BankManual(am[1], am[2], t, d)
  \/ \E h \in HouseNumbers \cup {UnknownHouse, NULL}, fails \in BOOLEAN :
       MpesaValidation(h, fails)

ManualStep ==
  \/ \E hm \in HouseInputs, d \in TxnDates(today) : ManualCreate(hm[1], hm[2], d)
  \/ \E id \in 1..MaxPayments, m \in AmountsIn : ManualUpdate(id, m)

BatchStep ==
  \/ \E d \in TxnDates(today), f \in LateFeePercentages, g \in GraceDays :
       GenerateMonthlyRent(d, f, g)
  \/ \E f \in LateFeePercentages, g \in GraceDays : CheckOverdue(f, g)

StkStep ==
  \/ \E hm \in HouseInputs, d \in TxnDates(today), ok \in BOOLEAN :
       StkPush("0712", hm[2], hm[1], d, ok)
  \/ \E c \in ProviderIds, rc \in ResultCodes, md \in Metadata : Callback(c, rc, md)
  \/ \E c \in ProviderIds, ok \in BOOLEAN : QueryStatus(c, ok)

Next == IngestStep \/ ManualStep \/ BatchStep \/ StkStep \/ Tick

Spec == Init /\ [][Next]_vars

(* The two webhooks as they run: each delivery is acknowledged, then looks *)
(* the store up, then saves, and the steps of two deliveries interleave.   *)
Slots == 1..MaxTasks

(* ack is the sequence of response codes the request has sent so far *)
Task(pc, channel, to, amount, txn, ref, date, rec, outcome, ack) ==
  [pc |-> pc, channel |-> channel, to |-> to, amount |-> amount, txn |-> txn,
   ref |-> ref, date |-> date, rec |-> rec, outcome |-> outcome, ack |-> ack]

(* A confirmation route that starts processing without answering *)
DeliverMpesaSilent(s, BillRefNumber, TransAmount, TransID) ==
  /\ tasks[s] = IdleTask
  /\ tasks' = [tasks EXCEPT ![s] =
                 Task("acked", "mpesa", BillRefNumber, TransAmount, TransID, NULL,
                      today, PaymentDefaults, "none", <<>>)]
  /\ UNCHANGED <<payments, dirVars, today, stkCount>>

(* res.json(...) of /mpesa-confirmation, sent before the processing *)
DeliverMpesa(s, BillRefNumber, TransAmount, TransID) ==
  /\ tasks[s] = IdleTask
  /\ tasks' = [tasks EXCEPT ![s] =
                 Task("acked", "mpesa", BillRefNumber, TransAmount, TransID, NULL,
                      today, PaymentDefaults, "none", <<Ack(payments).code>>)]
  /\ UNCHANGED <<payments, dirVars, today, stkCount>>

(* res.status(200).json(...) of /equity-bank/webhook, sent before the processing *)
DeliverBank(s, accountNumber, amount, transactionId, referenceNumber) ==
  /\ tasks[s] = IdleTask
  /\ tasks' = [tasks EXCEPT ![s] =
                 Task("acked", "bank", accountNumber, amount, transactionId,
                      referenceNumber, today, PaymentDefaults, "none",
                      <<Ack(payments).code>>)]
  /\ UNCHANGED <<payments, dirVars, today, stkCount>>

(* The reads of the processing: the house or tenant, the duplicate checks, *)
(* the count for the receipt number                                        *)
Lookup(s) ==
  LET t == tasks[s]
      l == IF t.channel = "mpesa"
           THEN MpesaLookup(payments, houses, t.to, t.amount, t.txn, t.date)
           ELSE BankLookup(payments, houses, tenants, t.to, t.amount, t.txn, t.ref, t.date)
  IN /\ t.pc = "acked"
     /\ tasks' = [tasks EXCEPT ![s] =
                    IF l.outcome = "save"
                    THEN [t EXCEPT !.pc = "saving", !.rec = l.rec]
                    ELSE [t EXCEPT !.pc = "done", !.outcome = l.outcome]]
     /\ UNCHANGED <<payments, dirVars, today, stkCount>>

(* await payment.save(), and the catch block when it throws *)
Save(s) ==
  LET t == tasks[s] IN
  /\ t.pc = "saving"
  /\ Len(payments) < MaxPayments
  /\ payments' = AfterSave(payments, t.rec)
  /\ tasks' = [tasks EXCEPT ![s] =
                 [t EXCEPT !.pc = "done", !.outcome = SaveOutcome(payments, t.rec)]]
  /\ UNCHANGED <<dirVars, today, stkCount>>

DeliverStep ==
  \/ \E s \in Slots, hm \in HouseInputs, t \in TxnIn : DeliverMpesa(s, hm[1], hm[2], t)
  \/ \E s \in Slots, am \in AccountInputs, tr \in TxnPairs :
       DeliverBank(s, am[1], am[2], tr[1], tr[2])

ProcessStep ==
  \/ \E s \in Slots : Lookup(s)
  \/ \E s \in Slots : Save(s)

NextRace == DeliverStep \/ ProcessStep \/ Tick

SpecRace == Init /\ [][NextRace]_vars

(* Generator runs as they execute: the look for an existing payment and  *)
(* the build of the new one, then, as a later step, the save               *)
GenCheck(s, date, lateFeePercentage, gracePeriodDays) ==
  LET list == BillableTenants(tenants, houses)
      tenant == Head(list)
      house == tenants[tenant].house
      month == MonthOf(date)
      year == YearOf(date)
      found == FindPeriod(payments, tenant, house, month, year) # 0
      rec == GeneratedPayment(payments, houses, today, tenant, house, month, year,
                              lateFeePercentage, gracePeriodDays)
  IN /\ tasks[s] = IdleTask
     /\ list # <<>>
     /\ tasks' = [tasks EXCEPT ![s] =
                    Task(IF found THEN "done" ELSE "saving", "generator", house, 0, NULL,
                         NULL, date, IF found THEN PaymentDefaults ELSE rec,
                         IF found THEN "skipped" ELSE "none", <<>>)]
     /\ UNCHANGED <<payments, dirVars, today, stkCount>>

GenCheckStep ==
  \E s \in Slots, d \in TxnDates(today), f \in LateFeePercentages, g \in GraceDays :
    GenCheck(s, d, f, g)

GenSaveStep == \E s \in Slots : Save(s)

GenPostStep ==
  \E hm \in HouseInputs, tr \in TxnPairs : Paybill(hm[1], hm[2], tr[1], tr[2])

NextGen == GenCheckStep \/ GenSaveStep \/ GenPostStep \/ BatchStep \/ Tick

SpecGen == Init /\ [][NextGen]_vars

(* The directory routes: assign-tenant, remove-tenant, DELETE /houses/:id, *)
(* DELETE /tenants/:id                                                     *)
DirTenants == {"t1", "t2", "t3"}

InitDirectory ==
  /\ payments = <<>>
  /\ houses = [h \in HouseNumbers |->
                 [rentAmount |-> 6, exists |-> TRUE,
                  tenant |-> IF h = "101" THEN "t1" ELSE NULL]]
  /\ tenants = [t \in DirTenants |->
                 [house |-> IF t = "t1" THEN "101" ELSE NULL, status |-> "active",
                  exists |-> TRUE,
                  bankAccountNumber |-> IF t = "t1" THEN "ACC1" ELSE NULL]]
  /\ today = 0
  /\ stkCount = 0
  /\ tasks = [s \in 1..MaxTasks |-> IdleTask]

(* House.findById / Tenant.findById *)
HouseById(hs, id) == IF id \in DOMAIN hs /\ hs[id].exists THEN id ELSE NULL
TenantById(ts, id) == IF id \in DOMAIN ts /\ ts[id].exists THEN id ELSE NULL

(* POST /houses/:id/assign-tenant *)
AssignTenant(id, tenantId) ==
  LET house == HouseById(houses, id)
      tenant == TenantById(tenants, tenantId)
      moving == /\ tenants[tenant].house # NULL /\ tenants[tenant].house # house
      previousHouse == IF moving THEN HouseById(houses, tenants[tenant].house) ELSE NULL
      cleared == IF previousHouse # NULL
                 THEN [houses EXCEPT ![previousHouse].tenant = NULL]
                 ELSE houses
  IN /\ house # NULL
     /\ tenant # NULL
     /\ houses' = [cleared EXCEPT ![house].tenant = tenantId]
     /\ tenants' = [tenants EXCEPT ![tenant].house = house]
     /\ UNCHANGED <<payments, today, stkCount, tasks>>

(* POST /houses/:id/remove-tenant *)
RemoveTenant(id) ==
  LET house == HouseById(houses, id)
      tenant == IF houses[house].tenant # NULL
                THEN TenantById(tenants, houses[house].tenant) ELSE NULL
  IN /\ house # NULL
     /\ tenants' = IF tenant # NULL THEN [tenants EXCEPT ![tenant].house = NULL]
                   ELSE tenants
     /\ houses' = [houses EXCEPT ![house].tenant = NULL]
     /\ UNCHANGED <<payments, today, stkCount, tasks>>

(* DELETE /houses/:id *)
DeleteHouse(id) ==
  LET house == HouseById(houses, id)
      tenant == IF houses[house].tenant # NULL
                THEN TenantById(tenants, houses[house].tenant) ELSE NULL
  IN /\ house # NULL
     /\ tenants' = IF tenant # NULL THEN [tenants EXCEPT ![tenant].house = NULL]
                   ELSE tenants
     /\ houses' = [houses EXCEPT ![house].exists = FALSE]
     /\ UNCHANGED <<payments, today, stkCount, tasks>>

(* DELETE /tenants/:id *)
DeleteTenant(id) ==
  LET tenant == TenantById(tenants, id)
      house == IF tenants[tenant].house # NULL
               THEN HouseById(houses, tenants[tenant].house) ELSE NULL
  IN /\ tenant # NULL
     /\ houses' = IF house # NULL THEN [houses EXCEPT ![house].tenant = NULL]
                  ELSE houses
     /\ tenants' = [tenants EXCEPT ![tenant].exists = FALSE]
     /\ UNCHANGED <<payments, today, stkCount, tasks>>

NextDirectory ==
  \/ \E h \in HouseNumbers, t \in DirTenants : AssignTenant(h, t)
  \/ \E h \in HouseNumbers : RemoveTenant(h)
  \/ \E h \in HouseNumbers : DeleteHouse(h)
  \/ \E t \in DirTenants : DeleteTenant(t)

SpecDirectory == InitDirectory /\ [][NextDirectory]_vars

(* Postings interleaved with deletions *)
PostStep ==
  \/ \E hm \in HouseInputs, tr \in TxnPairs : Paybill(hm[1], hm[2], tr[1], tr[2])
  \/ \E hm \in HouseInputs, d \in TxnDates(today) : ManualCreate(hm[1], hm[2], d)

DeleteStep == \E id \in 1..(MaxPayments + 1) : DeletePayment(id)

NextReceipts == PostStep \/ DeleteStep \/ Tick

SpecReceipts == Init /\ [][NextReceipts]_vars

(* The back office over a longer clock, so that a month that carries a    *)
(* deficit forward runs past its grace period                              *)
SweepDays == MaxDay + DaysPerMonth
SweepPercentages == {50, 100}

LateTick ==
  /\ today < SweepDays
  /\ today' = today + 1
  /\ UNCHANGED <<payments, dirVars, stkCount, tasks>>

GenerateStep ==
  \E d \in TxnDates(today), f \in SweepPercentages, g \in GraceDays :
    GenerateMonthlyRent(d, f, g)

SweepStep == \E f \in SweepPercentages, g \in GraceDays : CheckOverdue(f, g)

SweepCreateStep ==
  \E h \in HouseNumbers, m \in AmountsIn, d \in TxnDates(today) : ManualCreate(h, m, d)

SweepUpdateStep == \E id \in 1..MaxPayments, m \in AmountsIn : ManualUpdate(id, m)

NextSweep == SweepCreateStep \/ SweepUpdateStep \/ GenerateStep \/ SweepStep \/ LateTick

SpecSweep == Init /\ [][NextSweep]_vars

(* The back-office operations alone, over a wider range of amounts *)
ManualAmounts == {0, 2, 4, 6, 8}

ManualCreateStep ==
  \E h \in HouseNumbers \cup {UnknownHouse, NULL}, m \in ManualAmounts,
     d \in TxnDates(today) : ManualCreate(h, m, d)

ManualUpdateStep ==
  \E id \in 1..MaxPayments, m \in ManualAmounts : ManualUpdate(id, m)

NextManual == ManualCreateStep \/ ManualUpdateStep \/ BatchStep \/ Tick

SpecManual == Init /\ [][NextManual]_vars

----------------------------------------------------------------------------
(* Properties *)

SuccessCodes == {200, 201}

C2_ReplayIsIdempotentSuccess ==
  \A t \in TxnIds :
    LET id == FindByTransactionId(payments, t) IN
    id # 0 =>
      LET p == payments[id]
          r == CASE p.paymentSource = "paybill" ->
                      PaybillResult(payments, houses, today, p.house, p.amount, t, NULL)
                 [] p.paymentSource = "webhook" ->
                      ReceiveResult(payments, houses, today, p.house, p.amount, t)
                 [] p.paymentSource = "equity_bank" ->
                      BankManualResult(payments, houses, tenants,
                                       tenants[p.tenant].bankAccountNumber, p.amount, t,
                                       today)
                 [] OTHER -> Result(200, p.receiptNumber, id, payments)
      IN /\ r.code \in SuccessCodes
         /\ r.receipt = p.receiptNumber
         /\ Cardinality({k \in DOMAIN r.payments : r.payments[k].transactionId = t}) = 1

ManualCreated(h, m) ==
  LET r == ManualCreateResult(payments, houses, today, h, m, today)
  IN IF r.idx = 0 THEN {}
     ELSE {[p |-> m, e |-> r.payments[r.idx].expectedAmount, rec |-> r.payments[r.idx]]}

ManualUpdated(id, m) ==
  LET r == ManualUpdateResult(payments, houses, id, m)
  IN IF r.idx = 0 THEN {}
     ELSE {[p |-> m, e |-> UpdateExpected(payments[id], houses), rec |-> r.payments[id]]}

LedgerOutcomes ==
  UNION ({ManualCreated(h, m) : h \in HouseNumbers, m \in ManualAmounts}
           \cup {ManualUpdated(id, m) : id \in DOMAIN payments, m \in ManualAmounts})

(* C5 as stated: for every paid amount p >= 0 and expected amount e, manual *)
(* create and update give partial with deficit e - p when p < e, and paid   *)
(* with deficit 0 when p >= e.                                              *)
C5_PartialBelowExpected ==
  \A o \in LedgerOutcomes :
    /\ o.p < o.e => (o.rec.status = "partial" /\ o.rec.deficit = o.e - o.p)
    /\ o.p >= o.e => (o.rec.status = "paid" /\ o.rec.deficit = 0)

(* C5 amended: manual create and update give partial with deficit e - p     *)
(* when 0 < p < e, pending with deficit e when p = 0 < e, and paid with     *)
(* deficit 0 when p >= e.                                                   *)
C5_LedgerCalculation ==
  \A o \in LedgerOutcomes :
    /\ (0 < o.p /\ o.p < o.e) => (o.rec.status = "partial" /\ o.rec.deficit = o.e - o.p)
    /\ (o.p = 0 /\ o.p < o.e) => (o.rec.status = "pending" /\ o.rec.deficit = o.e)
    /\ o.p >= o.e => (o.rec.status = "paid" /\ o.rec.deficit = 0)

(* C5 witness: the store holds a manual payment of nothing that is pending, *)
(* a manual payment below its expected amount carrying a deficit forward,   *)
(* and the next create meets an expected amount above the rent.             *)
C5_Witness ==
  /\ \E i \in DOMAIN payments :
       /\ payments[i].notes = "manual" /\ payments[i].paidAmount = 0
       /\ payments[i].status = "pending"
       /\ payments[i].deficit = payments[i].expectedAmount
  /\ \E o \in LedgerOutcomes :
       /\ o.e > houses[o.rec.house].rentAmount
       /\ o.p >= o.e /\ o.rec.status = "paid"
  /\ \E o \in LedgerOutcomes : 0 < o.p /\ o.p < o.e /\ o.rec.status = "partial"

(* What a payment counts as paid: p.paidAmount || p.amount || 0 *)
PaidOf(p) == IF p.paidAmount # 0 THEN p.paidAmount ELSE p.amount

(* The payments a step stores or rewrites *)
Written(before, after) ==
  {i \in DOMAIN after : i \notin DOMAIN before \/ before[i] # after[i]}

(* C6: every payment a step stores or rewrites with status paid has a paid  *)
(* amount of at least the house's rent plus the deficit carried forward     *)
(* from the preceding month.                                                *)
C6_PaidCoversExpected ==
  [][\A i \in Written(payments, payments') :
       LET p == payments'[i] IN
       p.status = "paid" =>
         PaidOf(p) >= houses[p.house].rentAmount
                        + CarriedForward(payments, p.tenant, p.house, p.month, p.year)]_vars

(* C7: when the newest payment of the preceding month has a deficit D > 0   *)
(* and a step stores a new payment for the month, the new payment's         *)
(* expected amount is the rent plus D.                                      *)
C7_CarryForward ==
  [][\A i \in DOMAIN payments' \ DOMAIN payments :
       LET p == payments'[i]
           D == CarriedForward(payments, p.tenant, p.house, p.month, p.year)
       IN D > 0 => p.expectedAmount = houses[p.house].rentAmount + D]_vars

(* C8: every payment has deficit = max(0, expectedAmount - paidAmount).     *)
C8_DeficitConsistent ==
  \A i \in DOMAIN payments :
    payments[i].deficit = Max(0, payments[i].expectedAmount - payments[i].paidAmount)

(* Two deliveries of one notification *)
SameNotification(a, b) ==
  /\ a.channel = b.channel /\ a.to = b.to /\ a.amount = b.amount
  /\ a.txn = b.txn /\ a.ref = b.ref /\ a.date = b.date

(* C4: when two deliveries of the same notification have both run to the    *)
(* end, in whatever order their lookups and saves were taken, and one of    *)
(* them recorded the payment, exactly one payment carries the transaction   *)
(* identifier and the other delivery ended as a duplicate.                  *)
C4_RaceLoserIsDuplicate ==
  \A a, b \in Slots :
    (/\ a # b
     /\ tasks[a].pc = "done" /\ tasks[b].pc = "done"
     /\ SameNotification(tasks[a], tasks[b])
     /\ tasks[a].txn # NULL
     /\ tasks[a].outcome = "recorded")
    => /\ Cardinality({i \in DOMAIN payments :
                         payments[i].transactionId = tasks[a].txn}) = 1
       /\ tasks[b].outcome = "duplicate"

(* The payments an STK push is waiting on, and those a callback resolved *)
StkAwaiting == {i \in DOMAIN payments :
                  /\ payments[i].notes = "stk-initiated"
                  /\ payments[i].transactionId # NULL}

StkResolved == {i \in DOMAIN payments : payments[i].notes \in {"stk-completed", "stk-failed"}}

(* C9: an STK push that succeeds leaves a pending payment carrying the      *)
(* checkout request id, and a callback with result code 0 for that id       *)
(* makes the payment paid and stores the M-Pesa receipt number the callback *)
(* carries as its transaction identifier.                                   *)
C9_StkSettles ==
  /\ \A hm \in HouseInputs :
       LET r == StkPushResult(payments, houses, today, stkCount, "0712", hm[2], hm[1],
                              today, TRUE)
       IN (stkCount < MaxStk /\ r.code = 200) =>
            /\ r.payments[r.idx].status = "pending"
            /\ r.payments[r.idx].transactionId = CheckoutIds[stkCount + 1]
  /\ \A i \in StkAwaiting, md \in Metadata :
       LET r == CallbackResult(payments, payments[i].transactionId, 0, md)
       IN /\ r.payments[i].status = "paid"
          /\ md \in MpesaReceipts => r.payments[i].transactionId = md

(* C10: once a callback has been applied to a payment, a further callback   *)
(* with the payment's checkout request id, whatever its result code and     *)
(* metadata, is accepted and leaves the payment's status, transaction       *)
(* identifier and notes as they are.                                        *)
C10_CallbackReplayIgnored ==
  \A i \in StkResolved, n \in 1..MaxStk, rc \in ResultCodes, md \in Metadata :
    LET r == CallbackResult(payments, CheckoutIds[n], rc, md)
        p == payments[i]
        q == r.payments[i]
    IN /\ (q.status = p.status /\ q.transactionId = p.transactionId /\ q.notes = p.notes)
       /\ p.transactionId = CheckoutIds[n] => r.code = 200

(* Correlation ids a callback may carry: those the provider issued, and     *)
(* identifiers that belong to no STK push                                   *)
CallbackIds == ProviderIds \cup TxnIds \cup {"ws_CO_0"}

(* C11: an STK callback whose CheckoutRequestID is on no payment is         *)
(* answered without an error status and changes no payment.                 *)
C11_UnknownCallbackAcknowledged ==
  \A c \in CallbackIds, rc \in ResultCodes, md \in Metadata :
    FindByTransactionId(payments, c) = 0 =>
      LET r == CallbackResult(payments, c, rc, md)
      IN r.code \in SuccessCodes /\ r.payments = payments

(* C12: a webhook request sends its acknowledgment as its first step,       *)
(* before any read or write of the payments; every later step of the        *)
(* request finds exactly one acknowledgment sent, with a success status,    *)
(* and sends no other, however the processing ends.                         *)
C12_AckFirst ==
  [][\A s \in Slots :
       tasks'[s] # tasks[s] =>
         IF tasks[s].pc = "idle"
         THEN /\ tasks'[s].pc = "acked"
              /\ tasks'[s].ack = <<200>>
              /\ payments' = payments
         ELSE /\ tasks[s].ack = <<200>>
              /\ tasks'[s].ack = <<200>>]_vars

(* C12 witness: one delivery recorded its payment and another ended in a    *)
(* storage failure, each with its one acknowledgment sent.                  *)
C12_Witness ==
  \E a, b \in Slots :
    /\ tasks[a].pc = "done" /\ tasks[a].outcome = "recorded" /\ tasks[a].ack = <<200>>
    /\ tasks[b].pc = "done" /\ tasks[b].outcome = "error" /\ tasks[b].ack = <<200>>

(* Account references that resolve to no house, or to a house without a     *)
(* tenant, and bank accounts that resolve to no tenant                      *)
UnresolvedHouses ==
  {UnknownHouse} \cup {h \in HouseNumbers : houses[h].exists /\ houses[h].tenant = NULL}

UnresolvedAccounts == {UnknownAccount}

(* C13: on every channel a notification for a house that does not exist or *)
(* has no tenant (for the bank routes: an account no tenant has) stores and *)
(* changes no payment, and the M-Pesa confirmation is acknowledged with     *)
(* success all the same.                                                    *)
C13_UnresolvedTargetNoMutation ==
  /\ \A h \in UnresolvedHouses, m \in Amounts, t \in TxnIn :
       /\ PaybillResult(payments, houses, today, h, m, t, NULL).payments = payments
       /\ ReceiveResult(payments, houses, today, h, m, t).payments = payments
       /\ StkPushResult(payments, houses, today, stkCount, "0712", m, h, today,
                        TRUE).payments = payments
       /\ MpesaLookup(payments, houses, h, m, t, today).outcome
            \in {"invalid", "not_found", "no_tenant"}
       /\ Ack(payments).code = 200
  /\ \A a \in UnresolvedAccounts, m \in Amounts, t \in TxnIn :
       /\ BankManualResult(payments, houses, tenants, a, m, t, today).payments = payments
       /\ BankLookup(payments, houses, tenants, a, m, t, NULL, today).outcome = "not_found"

(* C13 witness: with payments on file, a pay-bill entry for a house without *)
(* a tenant is answered 400 and one for an unknown house 404.               *)
C13_Witness ==
  /\ payments # <<>>
  /\ \E h \in UnresolvedHouses \ {UnknownHouse} :
       PaybillResult(payments, houses, today, h, 6, NULL, NULL).code = 400
  /\ PaybillResult(payments, houses, today, UnknownHouse, 6, NULL, NULL).code = 404
  /\ \E t \in TxnIds :
       MpesaLookup(payments, houses, UnknownHouse, 6, t, today).outcome = "not_found"

(* Amounts a request may carry that are not positive: 0 stands for a        *)
(* missing or zero amount                                                   *)
BadAmounts == {0, -2}

(* Requests with the account reference missing, or with a bad amount *)
MalformedInputs ==
  {<<NULL, m>> : m \in Amounts} \cup {<<h, m>> : h \in HouseNumbers, m \in BadAmounts}

MalformedBankInputs ==
  {<<NULL, m>> : m \in Amounts} \cup {<<a, m>> : a \in Accounts, m \in BadAmounts}

Rejected(r) == r.code \notin SuccessCodes /\ r.payments = payments

(* C14: on every channel, manual create included, a request without an     *)
(* account reference, or with an amount that is missing, zero or negative,  *)
(* is rejected and stores and changes no payment.                           *)
C14_MalformedRejected ==
  /\ \A hm \in MalformedInputs, t \in TxnIn :
       /\ Rejected(PaybillResult(payments, houses, today, hm[1], hm[2], t, NULL))
       /\ Rejected(ReceiveResult(payments, houses, today, hm[1], hm[2], t))
       /\ Rejected(StkPushResult(payments, houses, today, stkCount, "0712", hm[2],
                                 hm[1], today, TRUE))
       /\ Rejected(ManualCreateResult(payments, houses, today, hm[1], hm[2], today))
       /\ MpesaLookup(payments, houses, hm[1], hm[2], t, today).outcome # "save"
  /\ \A am \in MalformedBankInputs, t \in TxnIn :
       /\ Rejected(BankManualResult(payments, houses, tenants, am[1], am[2], t, today))
       /\ BankLookup(payments, houses, tenants, am[1], am[2], t, NULL, today).outcome
            # "save"

(* Houses whose tenant already has a paid payment for the current month *)
SettledHouses ==
  {h \in HouseNumbers :
     /\ houses[h].tenant # NULL
     /\ FindPaid(payments, houses[h].tenant, h, MonthOf(today), YearOf(today)) # 0}

ExistingReceipt(h) ==
  payments[FindPaid(payments, houses[h].tenant, h, MonthOf(today),
                    YearOf(today))].receiptNumber

(* Transaction identifiers no payment carries yet *)
FreshTxn == {t \in TxnIn : t = NULL \/ FindByTransactionId(payments, t) = 0}

AlreadySettled(r, h) == r.payments = payments /\ r.receipt = ExistingReceipt(h)

(* C15: when the tenant of a house already has a paid payment for the       *)
(* current month, a further payment for that house on pay-bill, the generic *)
(* webhook, bank manual entry, STK push or the M-Pesa confirmation stores   *)
(* and changes no payment, and the response names the receipt number of     *)
(* the paid payment.                                                        *)
C15_AlreadySettledRejected ==
  \A h \in SettledHouses, m \in Amounts, t \in FreshTxn :
    /\ AlreadySettled(PaybillResult(payments, houses, today, h, m, t, NULL), h)
    /\ AlreadySettled(ReceiveResult(payments, houses, today, h, m, t), h)
    /\ AlreadySettled(BankManualResult(payments, houses, tenants,
                                       tenants[houses[h].tenant].bankAccountNumber,
                                       m, t, today), h)
    /\ AlreadySettled(StkPushResult(payments, houses, today, stkCount, "0712", m, h,
                                    today, TRUE), h)
    /\ MpesaLookup(payments, houses, h, m, t, today).outcome # "save"

(* C16: the pay-bill validation answers ResultCode 1 exactly when the house *)
(* named does not exist or has no tenant, answers 0 otherwise, and answers  *)
(* 0 whenever the lookup fails.                                             *)
C16_ValidationAnswer ==
  \A h \in HouseNumbers \cup {UnknownHouse, NULL} :
    /\ MpesaValidationResult(houses, h, TRUE) = 0
    /\ MpesaValidationResult(houses, h, FALSE) =
         IF h \in UnresolvedHouses THEN 1 ELSE 0

(* C16 witness: with payments on file the validation rejects the vacant and *)
(* the unknown house and accepts the occupied one.                          *)
C16_Witness ==
  /\ payments # <<>>
  /\ \E h \in HouseNumbers : MpesaValidationResult(houses, h, FALSE) = 1
  /\ \E h \in HouseNumbers : MpesaValidationResult(houses, h, FALSE) = 0
  /\ MpesaValidationResult(houses, UnknownHouse, FALSE) = 1

(* The sequence part of a receipt number *)
SequenceOf(p) == p.receiptNumber[2]

(* C17: of any two payments on file the one posted later has the greater    *)
(* receipt sequence number, whatever was deleted in between, so no two      *)
(* payments share a receipt number.                                         *)
C17_ReceiptSequenceIncreases ==
  \A i, j \in DOMAIN payments : i < j => SequenceOf(payments[i]) < SequenceOf(payments[j])

(* The requests that have built their payment, receipt number included *)
Posting == {s \in Slots :
              \/ tasks[s].pc = "saving"
              \/ tasks[s].pc = "done" /\ tasks[s].outcome \in {"recorded", "error"}}

(* C18: two postings in flight at the same time, whatever the order of      *)
(* their count and save steps, are never given the same receipt number.     *)
C18_ConcurrentReceiptsDistinct ==
  \A a, b \in Posting :
    a # b => tasks[a].rec.receiptNumber # tasks[b].rec.receiptNumber

(* C19: when a sweep turns a pending or partial payment overdue, the late   *)
(* fee it leaves is the payment's expected amount, rent plus the deficit    *)
(* carried forward, times lateFeePercentage / 100.                          *)
C19_LateFeeOnExpected ==
  [][\A i \in DOMAIN payments :
       (/\ i \in DOMAIN payments'
        /\ payments[i].status \in {"pending", "partial"}
        /\ payments[i].lateFee = 0
        /\ payments'[i].status = "overdue")
       => \E f \in SweepPercentages :
            payments'[i].lateFee =
              LateFee(houses[payments[i].house].rentAmount + payments[i].carriedForward, f)]_vars

(* One run of the sweep over all payments *)
SweepAll(ps, hs, now, lateFeePercentage, gracePeriodDays) ==
  [i \in DOMAIN ps |-> Swept(ps[i], hs, now, lateFeePercentage, gracePeriodDays)]

(* C20: a second run of the sweep right after a first changes no payment,   *)
(* and no run changes a late fee that is already non-zero, also on a        *)
(* payment that went back to pending or partial after it was charged.       *)
C20_SweepIdempotent ==
  \A f \in SweepPercentages, g \in GraceDays :
    LET once == SweepAll(payments, houses, today, f, g) IN
    /\ \A f2 \in SweepPercentages : SweepAll(once, houses, today, f2, g) = once
    /\ \A i \in DOMAIN payments :
         payments[i].lateFee # 0 => once[i].lateFee = payments[i].lateFee

(* C20 witness: a payment charged a late fee by an earlier sweep is partial *)
(* again and past its grace period, and a fresh computation of the fee      *)
(* would give another value.                                                *)
C20_Witness ==
  \E i \in DOMAIN payments, f \in SweepPercentages, g \in GraceDays :
    /\ payments[i].lateFee # 0
    /\ payments[i].status = "partial"
    /\ ~payments[i].isAutoGenerated
    /\ PastGrace(today, payments[i].month, payments[i].year, g)
    /\ LateFee(houses[payments[i].house].rentAmount, f) # payments[i].lateFee

(* C21: no (tenant, house, month, year) holds more than one payment the     *)
(* Generator created, also when Generator runs overlap each other or a      *)
(* posting.                                                                 *)
C21_OneGeneratedPerPeriod ==
  \A i, j \in DOMAIN payments :
    (i < j /\ payments[i].isAutoGenerated /\ payments[j].isAutoGenerated)
      => ~SameKey(payments[i], payments[j])

(* The deficit of the newest payment of the period before (month, year), 0  *)
(* when there is none                                                       *)
PrecedingDeficit(ps, tenant, house, month, year) ==
  LET before == {i \in DOMAIN ps :
                   /\ ps[i].tenant = tenant /\ ps[i].house = house
                   /\ ps[i].month = (IF month = 1 THEN 12 ELSE month - 1)
                   /\ ps[i].year = (IF month = 1 THEN year - 1 ELSE year)}
  IN IF before = {} THEN 0
     ELSE ps[CHOOSE i \in before : \A j \in before : j <= i].deficit

(* C22: every payment a Generator run adds has paidAmount 0, expectedAmount *)
(* = the house's rent + the deficit of the preceding period, deficit =      *)
(* expectedAmount, and status overdue exactly when the due date plus the    *)
(* grace period lies before the time of the run, pending otherwise.         *)
C22_GeneratedRecord ==
  \A d \in TxnDates(today), f \in SweepPercentages, g \in GraceDays :
    LET after == GenerateFor(payments, houses, tenants, today,
                             BillableTenants(tenants, houses), MonthOf(d), YearOf(d), f, g)
    IN \A i \in (Len(payments) + 1)..Len(after) :
         LET p == after[i]
         IN /\ p.isAutoGenerated
            /\ p.paidAmount = 0
            /\ p.expectedAmount =
                 houses[p.house].rentAmount
                   + PrecedingDeficit(payments, p.tenant, p.house, p.month, p.year)
            /\ p.deficit = p.expectedAmount
            /\ p.status \in {"pending", "overdue"}
            /\ p.status = "overdue" <=> today > DueDate(p.month, p.year) + g

(* A generated payment that pulled a deficit forward, and one generated     *)
(* after the grace period, are in the collection                            *)
C22_Witness ==
  /\ \E i \in DOMAIN payments :
       /\ payments[i].isAutoGenerated
       /\ payments[i].carriedForward > 0
       /\ payments[i].expectedAmount > houses[payments[i].house].rentAmount
  /\ \E d \in TxnDates(today), g \in GraceDays :
       PastGrace(today, MonthOf(d), YearOf(d), g)

KeyCount(ps, p) == Cardinality({i \in DOMAIN ps : SameKey(ps[i], p)})

(* C23: when the only payment of (tenant, house, month, year) is one the    *)
(* Generator created with paidAmount 0 and a paybill posting for that house *)
(* and month is accepted, the key still has one payment and that payment    *)
(* carries the funds.                                                       *)
C23_FundsMutateGenerated ==
  \A i \in DOMAIN payments, m \in Amounts, tr \in TxnPairs :
    LET p == payments[i]
        r == PaybillResult(payments, houses, today, p.house, m, tr[1], tr[2])
    IN (/\ p.isAutoGenerated /\ p.paidAmount = 0
        /\ p.month = MonthOf(today) /\ p.year = YearOf(today)
        /\ KeyCount(payments, p) = 1
        /\ r.code \in SuccessCodes)
         => /\ KeyCount(r.payments, p) = 1
            /\ r.payments[i].paidAmount = m
            /\ r.payments[i].status # p.status

(* C24: after any sequence of assign-tenant, remove-tenant, tenant deletion *)
(* and house deletion, every house is the assigned house of at most one     *)
(* tenant, and a house's tenant reference points to t only if t's assigned  *)
(* house is that house.                                                     *)
C24_ReferentialIntegrity ==
  /\ \A h \in DOMAIN houses :
       houses[h].exists =>
         Cardinality({t \in DOMAIN tenants :
                        tenants[t].exists /\ tenants[t].house = h}) <= 1
  /\ \A h \in DOMAIN houses :
       (houses[h].exists /\ houses[h].tenant # NULL) =>
         /\ tenants[houses[h].tenant].exists
         /\ tenants[houses[h].tenant].house = h

C26_SweepFrame ==
  \A f \in SweepPercentages, g \in GraceDays :
    LET after == SweepAll(payments, houses, today, f, g) IN
    /\ Len(after) = Len(payments)
    /\ \A i \in DOMAIN payments :
         LET p == payments[i]
             due == /\ p.status \in {"pending", "partial"}
                    /\ today > DueDate(p.month, p.year) + g
         IN /\ ~due => after[i] = p
            /\ due => after[i] = [p EXCEPT !.status = after[i].status,
                                           !.lateFee = after[i].lateFee]

(* C26 witness: the sweep makes one payment overdue while a paid payment   *)
(* or one still inside the grace period stands next to it.                  *)
C26_Witness ==
  \E i, j \in DOMAIN payments, g \in GraceDays :
    /\ i # j
    /\ payments[i].status \in {"pending", "partial"}
    /\ today > DueDate(payments[i].month, payments[i].year) + g
    /\ \/ payments[j].status = "paid"
       \/ /\ payments[j].status \in {"pending", "partial"}
          /\ today <= DueDate(payments[j].month, payments[j].year) + g
    /\ payments[j].status # "overdue"

(* The checkout ids that successful STK initiations have returned so far *)
IssuedIds == {CheckoutIds[n] : n \in 1..stkCount}

(* C27: for every checkout id a successful STK initiation returned, the     *)
(* status query with that id answers with the payment that initiation      *)
(* created, in every later state and also when the provider's status call   *)
(* fails, and leaves the collection as it was.                              *)
C27_QueryReturnsLocalRecord ==
  \A c \in IssuedIds, ok \in BOOLEAN :
    LET r == QueryStatusResult(payments, c, ok) IN
    /\ r.code = 200
    /\ r.idx \in DOMAIN payments
    /\ payments[r.idx].paymentSource = "mpesa_stk"
    /\ r.payments = payments

(* C28: an STK initiation whose provider call fails leaves the collection   *)
(* as it was before the request: no pending payment without a checkout id  *)
(* stays behind.                                                            *)
C28_FailedInitiateLeavesNothing ==
  \A hm \in HouseInputs, d \in TxnDates(today) :
    LET r == StkPushResult(payments, houses, today, stkCount, "0712", hm[2], hm[1], d,
                           FALSE)
    IN /\ r.code \notin SuccessCodes
       /\ r.payments = payments

(* C29: once a paid payment exists for a (tenant, house, month, year), no   *)
(* run of the sweep makes any payment of that key overdue or gives it a     *)
(* late fee, in particular not the payment the Generator created for it.    *)
C29_PaidPeriodNeverOverdue ==
  \A f \in LateFeePercentages, g \in GraceDays :
    LET after == SweepAll(payments, houses, today, f, g) IN
    \A i, j \in DOMAIN payments :
      (payments[j].status = "paid" /\ SameKey(payments[i], payments[j]))
        => /\ after[i].status = "overdue" => payments[i].status = "overdue"
           /\ after[i].lateFee = payments[i].lateFee

(* C30: an STK callback changes no payment that STK initiation did not      *)
(* create: whatever CheckoutRequestID it carries, also the transaction id   *)
(* of a payment ingested through another channel, the status of every such  *)
(* payment stays as it was.                                                 *)
C30_CallbackFrame ==
  \A c \in CallbackIds, rc \in ResultCodes, md \in Metadata :
    LET r == CallbackResult(payments, c, rc, md) IN
    /\ Len(r.payments) = Len(payments)
    /\ \A i \in DOMAIN payments :
         payments[i].paymentSource # "mpesa_stk"
           => r.payments[i].status = payments[i].status

====
